---------------------------- MODULE Spec2Model ----------------------------
(***************************************************************************)
(* intern-mint: a sharded pool of reference-counted byte buffers           *)
(* (src/src/pool.rs), the owned handle Interned (src/src/interned.rs) and  *)
(* the borrowed view BorrowedInterned (src/src/borrow.rs).                 *)
(*                                                                         *)
(* A buffer (triomphe::Arc<[u8]>) is an address with its bytes and its     *)
(* atomic strong count; count 0 means the address is not allocated.  Each  *)
(* thread runs one operation at a time; an operation is cut into steps at  *)
(* every access to shared memory that another thread can observe (atomic   *)
(* count reads and updates, mutex acquire and release).                    *)
(***************************************************************************)
EXTENDS Integers, Sequences, FiniteSets, TLC

\* ------------------------------------------------------------- bounds
NThreads == 2
MaxByte == 1
MaxHandles == 2
MaxLen == 2
\* Frames of encode() the stack of a thread has room for.
MaxFrames == 3
\* The largest parallelism a machine reports.
MaxParallelism == 4
\* Bits of a hash, below the seven that << 7 pushes out, that take every value.
HashWindow == 6

\* --------------------------------------------------- program constants
\* Mutants of MINIMUM_STRONG_COUNT: the threshold one too high, one too low.
MinimumStrongCountTooHigh == 2 + 1
MinimumStrongCountTooLow == 2 - 1
MINIMUM_STRONG_COUNT == 2
WordBits == 64
Parallelism == 1

Threads == 1..NThreads
\* The thread that spawns and joins the others in the tests.
MainThread == NThreads + 1
AllThreads == Threads \cup {MainThread}
\* Byte sequences the callers intern: the empty one and the one-byte ones.
Values == {<< >>} \cup {<<b>> : b \in 1..MaxByte}
NoVal == <<0, 0>>
\* Byte sequences with common prefixes, for the handles that are compared:
\* every sequence of at most MaxLen bytes out of 1..MaxByte + 1.
LongValues == UNION {[1..n -> 1..(MaxByte + 1)] : n \in 0..MaxLen}
\* Every value can sit in the pool while every thread still holds a buffer it
\* has just evicted, so this many addresses never run out.
NumAddrs == Cardinality(Values) + NThreads
Addrs == 1..NumAddrs
NoAddr == NumAddrs + 1
NoThread == NThreads + 2
\* A test that has not looked at any handle yet.
NoNote == [ptr |-> NoAddr, data |-> NoVal, ptr_hash |-> << >>, data_hash |-> << >>]
\* A serializer that has written nothing.
NoWire == [tag |-> "none", items |-> << >>]
\* No thread has a value to itself.
NoProbe == [t |-> NoThread, v |-> NoVal]
\* b"hello" of the tests: a non-empty byte sequence.
Hello == <<1>>
\* Seeds of the pool's ahash::RandomState: drawn once, fixed afterwards.
Seeds == {0, 127}

VARIABLES
    seed,       \* POOL.hash_builder
    bytes,      \* bytes[a]: the contents of the buffer at address a
    count,      \* count[a]: Arc strong count of the buffer at a (0: not allocated)
    shards,     \* shards[i]: the Arcs stored in shard i's HashTable, by address
    lock,       \* lock[i]: the thread holding shard i's Mutex, or NoThread
    pc,         \* pc[t]: where thread t is in its current operation
    own,        \* own[t][a]: live Interned handles thread t owns on buffer a
    val,        \* val[t]: the `value: &[u8]` argument of t's operation
    arc,        \* arc[t]: the Arc t's operation works on (self.0, the borrow's source)
    dst,        \* dst[t]: who receives the handle of t's Interned::new
    DEFAULT,    \* interned::DEFAULT: address of the default handle, or NoAddr
    defaultState, \* LazyLock state of DEFAULT: "uninit", "running", "done"
    lenIdx,     \* lenIdx[t]: next shard of t's len()
    lenAcc,     \* lenAcc[t]: running sum of t's len()
    failed,     \* threads whose intern() hit the expect() failure
    noted,      \* noted[t]: the pointer and the bytes of a handle, as t's test kept them
    wire,       \* wire[t]: the output of t's serializer, or NoWire
    frames,     \* frames[t]: stack frames of t's encode() call chain
    par,        \* what available_parallelism() reported to a ShardedSet::default()
    hash,       \* `hash` of get_hash_and_shard on that ShardedSet
    idx,        \* `idx` of get_hash_and_shard on that ShardedSet, or NoIdx
    probe       \* the thread that has a value to itself, and that value, or NoProbe

vars == <<seed, bytes, count, shards, lock, pc, own, val, arc, dst, DEFAULT,
          defaultState, lenIdx, lenAcc, failed, noted, wire, frames, par, hash, idx,
          probe>>


\* ------------------------------------------------- hashing and shards
\* 64-bit words are functions 1..WordBits -> {0,1}, least significant bit first.
Bit(n, k) == (n \div (2 ^ k)) % 2

RECURSIVE FoldBytes(_)
FoldBytes(v) == IF v = << >> THEN 0 ELSE (31 * FoldBytes(Tail(v)) + Head(v) + 1) % 256

\* hash_builder.hash_one(value): a stand-in for ahash, a function of the seed
\* and of the bytes alone (the byte (seed + fold) repeated over the word).
hash_one(s, v) == [i \in 1..WordBits |-> Bit((s + FoldBytes(v)) % 256, (i - 1) % 8)]

\* u64 << n, truncated to the word, and u64 >> n.
Shl(w, n) == [i \in 1..WordBits |-> IF i > n THEN w[i - n] ELSE 0]
Shr(w, n) == [i \in 1..WordBits |-> IF i + n <= WordBits THEN w[i + n] ELSE 0]

RECURSIVE WordToNat(_, _)
WordToNat(w, i) ==
    IF i > WordBits THEN 0
    ELSE (IF w[i] = 1 THEN 2 ^ (i - 1) ELSE 0) + WordToNat(w, i + 1)

RECURSIVE NextPowerOfTwoFrom(_, _)
NextPowerOfTwoFrom(n, p) == IF p >= n THEN p ELSE NextPowerOfTwoFrom(n, 2 * p)
next_power_of_two(n) == NextPowerOfTwoFrom(n, 1)

RECURSIVE trailing_zeros(_)
trailing_zeros(n) == IF n % 2 = 1 THEN 0 ELSE 1 + trailing_zeros(n \div 2)

DEFAULT_SHARDS_COUNT == next_power_of_two(Parallelism * 4)
shift == WordBits - trailing_zeros(DEFAULT_SHARDS_COUNT)
ShardIds == 0..(DEFAULT_SHARDS_COUNT - 1)

\* available_parallelism() returned Err: a NonZero count is never 0.
NoParallelism == 0
Reports == {NoParallelism} \cup (1..MaxParallelism)
\* available_parallelism().map_or(1, usize::from)
map_or_1(p) == IF p = NoParallelism THEN 1 ELSE p
\* DEFAULT_SHARDS_COUNT and shift of a ShardedSet::default() on a machine
\* that reports p.
shards_count(p) == next_power_of_two(map_or_1(p) * 4)
shift_of(n) == WordBits - trailing_zeros(n)
\* Mutant of shard_of: the hash is not shifted left first.
ShardOfUnshifted(h, sh) == WordToNat(Shr(h, sh), 1)
\* ((hash << 7) >> self.shift) as usize
shard_of(h, sh) == WordToNat(Shr(Shl(h, 7), sh), 1)
\* The hashes that are tried: the HashWindow bits below the top seven spell m,
\* the top seven bits are all hi and the bits below the window all lo.
HashWord(m, hi, lo) ==
    [i \in 1..WordBits |->
        IF i > WordBits - 7 THEN hi
        ELSE IF i > WordBits - 7 - HashWindow
             THEN Bit(m, i - 1 - (WordBits - 7 - HashWindow))
             ELSE lo]
HashInputs ==
    {HashWord(m, hi, lo) : m \in 0..(2 ^ HashWindow - 1), hi \in {0, 1}, lo \in {0, 1}}
ZeroWord == [i \in 1..WordBits |-> 0]
NoIdx == 0 - 1

\* get_hash_and_shard: idx = ((hash << 7) >> self.shift) as usize
get_shard_idx(s, v) == WordToNat(Shr(Shl(hash_one(s, v), 7), shift), 1)
\* The index of every seed and value, computed once.
ShardTable ==
    [s \in Seeds |-> [v \in Values \cup LongValues \cup {NoVal} |-> get_shard_idx(s, v)]]
ShardIdx(v) == ShardTable[seed][v]

\* ------------------------------------------------------- Arc<[u8]>
\* Mutant of ArcDrop: two references are released for one.
ArcDropTwice(cnt, a) == [cnt EXCEPT ![a] = IF @ > 1 THEN @ - 2 ELSE 0]
\* Mutant of ArcDrop: the reference is forgotten, never released.
ArcDropForgotten(cnt, a) == cnt
\* Mutant of FreeAddrs: an allocation may return memory that is still in use
\* outside the pool.
FreeAddrsInUse == Addrs \ UNION {shards[i] : i \in 0..(DEFAULT_SHARDS_COUNT - 1)}
\* Mutant of ArcClone: two references added for one handle.
ArcCloneTwice(cnt, a) == [cnt EXCEPT ![a] = @ + 2]
\* Arc::clone: one more strong reference.
ArcClone(cnt, a) == [cnt EXCEPT ![a] = @ + 1]
\* Drop of an Arc: one reference fewer; at 0 the buffer is freed.
ArcDrop(cnt, a) == [cnt EXCEPT ![a] = IF @ > 0 THEN @ - 1 ELSE 0]
BytesAfterDrop(byt, cnt, a) == IF cnt[a] <= 1 THEN [byt EXCEPT ![a] = NoVal] ELSE byt
\* Arc::from(value) allocates memory that is not in use, wherever the
\* allocator finds it: a freed address can be handed out again.
FreeAddrs == {a \in Addrs : count[a] = 0}

\* ------------------------------------------------- shard lookups
\* Mutant of FindSame: the eq closure never matches.
FindSameMiss(shard, p) == {}
\* Mutant of FindEqual: the eq closure matches every entry of the shard.
FindEqualAny(shard, v) == shard
\* Mutant of FindEqual: the eq closure never matches.
FindEqualMiss(shard, v) == {}
\* Mutant of FastPathReturn: the unlocked read never returns early.
FastPathNever(c) == FALSE
\* Mutant of FastPathReturn: >= in place of >.
FastPathOffByOne(c) == c >= MINIMUM_STRONG_COUNT
\* Mutant of LockedRecheck: the re-check asks for a count below two.
LockedRecheckStrict(c) == c < 2
\* Mutant of LockedRecheck: no re-check under the lock.
LockedRecheckSkipped(c) == TRUE
\* get_or_insert's eq closure: |o| o.deref() == value
FindEqual(shard, v) == {a \in shard : bytes[a] = v}
\* remove_if_needed's eq closure: |o| addr_eq(o.as_ptr(), value.as_ptr())
FindSame(shard, p) == {a \in shard : a = p}
\* remove_if_needed's unlocked test: Arc::strong_count(value) > MINIMUM_STRONG_COUNT
FastPathReturn(c) == c > MINIMUM_STRONG_COUNT
\* remove_if_needed's test under the lock
LockedRecheck(c) == c <= MINIMUM_STRONG_COUNT

Pool == UNION {shards[i] : i \in ShardIds}
RECURSIVE SumOwn(_, _)
SumOwn(f, a) == IF a > NumAddrs THEN 0 ELSE f[a] + SumOwn(f, a + 1)
\* The live handles thread t owns.
Handles(t) == SumOwn(own[t], 1)

\* ------------------------------------- views, equality, hashing, order
\* Deref for Interned: the slice of the buffer's bytes, a data pointer and a
\* length.
deref(a) == [ptr |-> a, len |-> Len(bytes[a])]
\* AsRef / Borrow for Interned: BorrowedInterned::new(self.deref()), a cast of
\* the slice reference.
as_ref(a) == [ptr |-> deref(a).ptr, len |-> deref(a).len]
\* Deref for BorrowedInterned: the bytes the borrowed slice covers.
borrow_deref(b) == SubSeq(bytes[b.ptr], 1, b.len)
\* as_ptr() of a handle and of a borrow: the slice's data pointer.
as_ptr(a) == deref(a).ptr
borrow_as_ptr(b) == b.ptr

\* PartialEq: std::ptr::addr_eq of the two data pointers.
Interned_eq(a, b) == as_ptr(a) = as_ptr(b)
Borrowed_eq(x, y) == borrow_as_ptr(x) = borrow_as_ptr(y)

\* What an implementation of Hash feeds its Hasher: the sequence of writes.
\* Hash for [u8] writes the length prefix and the bytes.
slice_hash(v) == << <<"len", Len(v)>>, <<"bytes", v>> >>
\* Mutant of Interned_cmp: the handles are ordered by their addresses.
InternedCmpByAddr(a, b) == IF a = b THEN "Equal" ELSE IF a < b THEN "Less" ELSE "Greater"
\* Mutant of Borrowed_hash: the borrow hashes its bytes, not its pointer.
BorrowedHashBytes(b) == slice_hash(borrow_deref(b))
\* Hash for Interned and for BorrowedInterned: self.as_ptr().hash(state).
Interned_hash(a) == << <<"usize", as_ptr(a)>> >>
Borrowed_hash(b) == << <<"usize", borrow_as_ptr(b)>> >>

\* Mutant of Interned_hash_data: the pointer is hashed, as Hash does.
HashDataByPtr(a) == << <<"usize", a>> >>
\* hash_data of a handle and of a borrow: self.deref().hash(state) and then
\* 0u8.hash(state).
Interned_hash_data(a) == slice_hash(bytes[a]) \o << <<"u8", 0>> >>
Borrowed_hash_data(b) == slice_hash(borrow_deref(b)) \o << <<"u8", 0>> >>

\* Hasher::finish of a hasher seeded with s after the writes of feed: a
\* stand-in, a function of the seed and of the writes alone, with collisions.
RECURSIVE finish(_, _)
finish(s, feed) ==
    IF feed = << >> THEN s % 8
    ELSE LET w == Head(feed)
             n == IF w[1] = "bytes" THEN FoldBytes(w[2]) ELSE w[2]
         IN (3 * finish(s, Tail(feed)) + n + 1) % 8

\* Ord for [u8]: lexicographic comparison of the bytes.
RECURSIVE slice_cmp(_, _)
slice_cmp(x, y) ==
    IF x = << >> /\ y = << >> THEN "Equal"
    ELSE IF x = << >> THEN "Less"
    ELSE IF y = << >> THEN "Greater"
    ELSE IF Head(x) < Head(y) THEN "Less"
    ELSE IF Head(x) > Head(y) THEN "Greater"
    ELSE slice_cmp(Tail(x), Tail(y))
\* Ord for Interned and for BorrowedInterned: self.deref().cmp(other.deref()).
Interned_cmp(a, b) == slice_cmp(bytes[a], bytes[b])
Borrowed_cmp(x, y) == slice_cmp(borrow_deref(x), borrow_deref(y))

\* HashMap<Interned, V>::get with a handle and with a borrow as the query: the
\* values of the entries whose key has the query's hash and equals the query.
\* A map is a set of entries [k |-> key handle's buffer, v |-> value].
HashMapGet(s, m, q) ==
    {e.v : e \in {x \in m : /\ finish(s, Interned_hash(x.k)) = finish(s, Interned_hash(q))
                            /\ Interned_eq(x.k, q)}}
HashMapGetBorrowed(s, m, b) ==
    {e.v : e \in {x \in m : /\ finish(s, Interned_hash(x.k)) = finish(s, Borrowed_hash(b))
                            /\ Borrowed_eq(as_ref(x.k), b)}}
\* BTreeMap<Interned, V>::get: the values of the entries whose key compares
\* Equal to the query.
BTreeMapGet(m, q) == {e.v : e \in {x \in m : Interned_cmp(x.k, q) = "Equal"}}
BTreeMapGetBorrowed(m, b) ==
    {e.v : e \in {x \in m : Borrowed_cmp(as_ref(x.k), b) = "Equal"}}

\* ---------------------------------------------------------------- Init
Init ==
    /\ seed \in Seeds
    /\ bytes = [a \in Addrs |-> NoVal]
    /\ count = [a \in Addrs |-> 0]
    /\ shards = [i \in ShardIds |-> {}]
    /\ lock = [i \in ShardIds |-> NoThread]
    /\ pc = [t \in AllThreads |-> "idle"]
    /\ own = [t \in AllThreads |-> [a \in Addrs |-> 0]]
    /\ val = [t \in AllThreads |-> NoVal]
    /\ arc = [t \in AllThreads |-> NoAddr]
    /\ dst = [t \in AllThreads |-> "caller"]
    /\ DEFAULT = NoAddr
    /\ defaultState = "uninit"
    /\ lenIdx = [t \in AllThreads |-> 0]
    /\ lenAcc = [t \in AllThreads |-> 0]
    /\ failed = {}
    /\ noted = [t \in AllThreads |-> NoNote]
    /\ wire = [t \in AllThreads |-> NoWire]
    /\ frames = [t \in AllThreads |-> 0]
    /\ par = Parallelism
    /\ hash = ZeroWord
    /\ idx = NoIdx
    /\ probe = NoProbe

\* ------------------------------------------------------ Interned::new
\* Interned::new(value) is called.
NewCall(t, v) ==
    /\ pc[t] = "idle"
    /\ Handles(t) < MaxHandles
    /\ pc' = [pc EXCEPT ![t] = "new_lock"]
    /\ val' = [val EXCEPT ![t] = v]
    /\ dst' = [dst EXCEPT ![t] = "caller"]
    /\ UNCHANGED <<seed, par, hash, idx, probe, noted, wire, frames, bytes, count, shards, lock, own, arc, DEFAULT,
                   defaultState, lenIdx, lenAcc, failed>>

\* get_or_insert: get_hash_and_shard(value) takes the shard's mutex.
NewLock(t) ==
    /\ pc[t] = "new_lock"
    /\ lock[ShardIdx(val[t])] = NoThread
    /\ lock' = [lock EXCEPT ![ShardIdx(val[t])] = t]
    /\ pc' = [pc EXCEPT ![t] = "new_entry"]
    /\ UNCHANGED <<seed, par, hash, idx, probe, noted, wire, frames, bytes, count, shards, own, val, arc, dst, DEFAULT,
                   defaultState, lenIdx, lenAcc, failed>>

\* The handle get_or_insert returned reaches its owner: the caller of
\* Interned::new, or the DEFAULT static whose initializer called it.
Deliver(t, a) ==
    IF dst[t] = "caller"
    THEN /\ own' = [own EXCEPT ![t][a] = @ + 1]
         /\ pc' = [pc EXCEPT ![t] = "idle"]
         /\ UNCHANGED <<DEFAULT, defaultState>>
    ELSE /\ DEFAULT' = a
         /\ defaultState' = "done"
         /\ pc' = [pc EXCEPT ![t] = "def_clone"]
         /\ UNCHANGED own

\* get_or_insert under the lock: entry(hash, eq).or_insert_with(Arc::from(value))
\* .get().clone(); the guard is released on return.
NewEntry(t) ==
    /\ pc[t] = "new_entry"
    /\ LET i == ShardIdx(val[t])
           found == FindEqual(shards[i], val[t])
       IN /\ IF found # {}
             THEN \E a \in found :
                    /\ count' = ArcClone(count, a)
                    /\ Deliver(t, a)
                    /\ UNCHANGED <<bytes, shards>>
             ELSE \E a \in FreeAddrs :
                    /\ bytes' = [bytes EXCEPT ![a] = val[t]]
                    /\ count' = ArcClone([count EXCEPT ![a] = 1], a)
                    /\ shards' = [shards EXCEPT ![i] = @ \cup {a}]
                    /\ Deliver(t, a)
          /\ lock' = [lock EXCEPT ![i] = NoThread]
    /\ val' = [val EXCEPT ![t] = NoVal]
    /\ dst' = [dst EXCEPT ![t] = "caller"]
    /\ UNCHANGED <<seed, par, hash, idx, probe, noted, wire, frames, arc, lenIdx, lenAcc, failed>>

\* Mutant of Clone: a deep copy into a fresh buffer in place of Arc::clone.
CloneCopy(t, a) ==
    /\ pc[t] = "idle"
    /\ own[t][a] > 0
    /\ Handles(t) < MaxHandles
    /\ \E b \in {x \in Addrs : count[x] = 0} :
        /\ bytes' = [bytes EXCEPT ![b] = bytes[a]]
        /\ count' = [count EXCEPT ![b] = 1]
        /\ own' = [own EXCEPT ![t][b] = @ + 1]
    /\ UNCHANGED <<seed, par, hash, idx, probe, noted, wire, frames, shards, lock, pc, val, arc, dst, DEFAULT,
                   defaultState, lenIdx, lenAcc, failed>>

\* ------------------------------------------------------ Interned::clone
\* #[derive(Clone)]: Arc::clone of the handle's buffer.
Clone(t, a) ==
    /\ pc[t] = "idle"
    /\ own[t][a] > 0
    /\ Handles(t) < MaxHandles
    /\ count' = ArcClone(count, a)
    /\ own' = [own EXCEPT ![t][a] = @ + 1]
    /\ UNCHANGED <<seed, par, hash, idx, probe, noted, wire, frames, bytes, shards, lock, pc, val, arc, dst, DEFAULT,
                   defaultState, lenIdx, lenAcc, failed>>

\* ------------------------------------------------------- Interned::drop
\* A handle of t enters drop(): it is no longer live, its reference is still held.
DropCall(t, a) ==
    /\ pc[t] = "idle"
    /\ own[t][a] > 0
    /\ own' = [own EXCEPT ![t][a] = @ - 1]
    /\ arc' = [arc EXCEPT ![t] = a]
    /\ pc' = [pc EXCEPT ![t] = "drop_read"]
    /\ UNCHANGED <<seed, par, hash, idx, probe, noted, wire, frames, bytes, count, shards, lock, val, dst, DEFAULT,
                   defaultState, lenIdx, lenAcc, failed>>

\* remove_if_needed: the unlocked read of the strong count.
DropRead(t) ==
    /\ pc[t] = "drop_read"
    /\ pc' = [pc EXCEPT ![t] = IF FastPathReturn(count[arc[t]])
                               THEN "drop_dec" ELSE "drop_lock"]
    /\ UNCHANGED <<seed, par, hash, idx, probe, noted, wire, frames, bytes, count, shards, lock, own, val, arc, dst, DEFAULT,
                   defaultState, lenIdx, lenAcc, failed>>

\* remove_if_needed: get_hash_and_shard(value) on the buffer's bytes.
DropLock(t) ==
    /\ pc[t] = "drop_lock"
    /\ lock[ShardIdx(bytes[arc[t]])] = NoThread
    /\ lock' = [lock EXCEPT ![ShardIdx(bytes[arc[t]])] = t]
    /\ pc' = [pc EXCEPT ![t] = "drop_entry"]
    /\ UNCHANGED <<seed, par, hash, idx, probe, noted, wire, frames, bytes, count, shards, own, val, arc, dst, DEFAULT,
                   defaultState, lenIdx, lenAcc, failed>>

\* remove_if_needed under the lock: the lookup by address and the re-check of
\* the strong count; without a removal the guard is released on return.
DropEntry(t) ==
    /\ pc[t] = "drop_entry"
    /\ LET i == ShardIdx(bytes[arc[t]])
       IN IF FindSame(shards[i], arc[t]) # {} /\ LockedRecheck(count[arc[t]])
          THEN /\ pc' = [pc EXCEPT ![t] = "drop_remove"]
               /\ UNCHANGED lock
          ELSE /\ pc' = [pc EXCEPT ![t] = "drop_dec"]
               /\ lock' = [lock EXCEPT ![i] = NoThread]
    /\ UNCHANGED <<seed, par, hash, idx, probe, noted, wire, frames, bytes, count, shards, own, val, arc, dst, DEFAULT,
                   defaultState, lenIdx, lenAcc, failed>>

\* entry.remove(): the pool's Arc leaves the table and is dropped; the guard
\* is released on return.
DropRemove(t) ==
    /\ pc[t] = "drop_remove"
    /\ LET i == ShardIdx(bytes[arc[t]])
       IN /\ shards' = [shards EXCEPT ![i] = @ \ {arc[t]}]
          /\ lock' = [lock EXCEPT ![i] = NoThread]
    /\ count' = ArcDrop(count, arc[t])
    /\ bytes' = BytesAfterDrop(bytes, count, arc[t])
    /\ pc' = [pc EXCEPT ![t] = "drop_dec"]
    /\ UNCHANGED <<seed, par, hash, idx, probe, noted, wire, frames, own, val, arc, dst, DEFAULT, defaultState, lenIdx,
                   lenAcc, failed>>

\* After drop() returned, the field self.0 is dropped: the handle's reference
\* is released.
DropDec(t) ==
    /\ pc[t] = "drop_dec"
    /\ count' = ArcDrop(count, arc[t])
    /\ bytes' = BytesAfterDrop(bytes, count, arc[t])
    /\ arc' = [arc EXCEPT ![t] = NoAddr]
    /\ pc' = [pc EXCEPT ![t] = "idle"]
    /\ UNCHANGED <<seed, par, hash, idx, probe, noted, wire, frames, shards, lock, own, val, dst, DEFAULT, defaultState,
                   lenIdx, lenAcc, failed>>

\* ---------------------------------------------- BorrowedInterned::intern
\* A borrow of buffer a is a view of a live handle that t owns, or of DEFAULT.
BorrowSources(t) ==
    {a \in Addrs : own[t][a] > 0} \cup (IF defaultState = "done" THEN {DEFAULT} ELSE {})

\* intern() is called on a borrow of a; the source handle stays live meanwhile.
InternCall(t, a) ==
    /\ pc[t] = "idle"
    /\ a \in BorrowSources(t)
    /\ Handles(t) < MaxHandles
    /\ arc' = [arc EXCEPT ![t] = a]
    /\ val' = [val EXCEPT ![t] = bytes[a]]
    /\ pc' = [pc EXCEPT ![t] = "intern_lock"]
    /\ UNCHANGED <<seed, par, hash, idx, probe, noted, wire, frames, bytes, count, shards, lock, own, dst, DEFAULT,
                   defaultState, lenIdx, lenAcc, failed>>

\* get_from_existing_ref: get_hash_and_shard(value) on the borrowed bytes.
InternLock(t) ==
    /\ pc[t] = "intern_lock"
    /\ lock[ShardIdx(val[t])] = NoThread
    /\ lock' = [lock EXCEPT ![ShardIdx(val[t])] = t]
    /\ pc' = [pc EXCEPT ![t] = "intern_find"]
    /\ UNCHANGED <<seed, par, hash, idx, probe, noted, wire, frames, bytes, count, shards, own, val, arc, dst, DEFAULT,
                   defaultState, lenIdx, lenAcc, failed>>

\* get_from_existing_ref under the lock: the lookup by address, cloned when
\* found; intern() wraps it with from_existing, or fails in expect().
InternFind(t) ==
    /\ pc[t] = "intern_find"
    /\ LET i == ShardIdx(val[t])
       IN /\ IF FindSame(shards[i], arc[t]) # {}
             THEN /\ count' = ArcClone(count, arc[t])
                  /\ own' = [own EXCEPT ![t][arc[t]] = @ + 1]
                  /\ pc' = [pc EXCEPT ![t] = "idle"]
                  /\ UNCHANGED failed
             ELSE /\ failed' = failed \cup {t}
                  /\ pc' = [pc EXCEPT ![t] = "panicked"]
                  /\ UNCHANGED <<count, own>>
          /\ lock' = [lock EXCEPT ![i] = NoThread]
    /\ arc' = [arc EXCEPT ![t] = NoAddr]
    /\ val' = [val EXCEPT ![t] = NoVal]
    /\ UNCHANGED <<seed, par, hash, idx, probe, noted, wire, frames, bytes, shards, dst, DEFAULT, defaultState, lenIdx, lenAcc>>

\* ---------------------------------------------------- Interned::default
\* The first request forces the DEFAULT LazyLock: its initializer interns the
\* empty byte sequence.
DefaultInit(t) ==
    /\ pc[t] = "idle"
    /\ Handles(t) < MaxHandles
    /\ defaultState = "uninit"
    /\ defaultState' = "running"
    /\ pc' = [pc EXCEPT ![t] = "new_lock"]
    /\ val' = [val EXCEPT ![t] = << >>]
    /\ dst' = [dst EXCEPT ![t] = "default"]
    /\ UNCHANGED <<seed, par, hash, idx, probe, noted, wire, frames, bytes, count, shards, lock, own, arc, DEFAULT, lenIdx,
                   lenAcc, failed>>

\* Interned::default() once DEFAULT is initialized: DEFAULT.clone().
DefaultClone(t) ==
    /\ \/ pc[t] = "def_clone"
       \/ pc[t] = "idle" /\ Handles(t) < MaxHandles
    /\ defaultState = "done"
    /\ count' = ArcClone(count, DEFAULT)
    /\ own' = [own EXCEPT ![t][DEFAULT] = @ + 1]
    /\ pc' = [pc EXCEPT ![t] = "idle"]
    /\ UNCHANGED <<seed, par, hash, idx, probe, noted, wire, frames, bytes, shards, lock, val, arc, dst, DEFAULT,
                   defaultState, lenIdx, lenAcc, failed>>

\* Mutant of LenShard: the guard outlives the item and is never released.
LenShardKeepsGuard(t) ==
    /\ pc[t] = "len_shard"
    /\ lock[lenIdx[t]] = t
    /\ lenAcc' = [lenAcc EXCEPT ![t] = @ + Cardinality(shards[lenIdx[t]])]
    /\ IF lenIdx[t] + 1 = DEFAULT_SHARDS_COUNT
       THEN /\ pc' = [pc EXCEPT ![t] = "len_ret"]
            /\ lenIdx' = [lenIdx EXCEPT ![t] = 0]
       ELSE /\ pc' = [pc EXCEPT ![t] = "len"]
            /\ lenIdx' = [lenIdx EXCEPT ![t] = @ + 1]
    /\ UNCHANGED <<seed, par, hash, idx, probe, noted, wire, frames, bytes, count, shards, lock, own, val, arc, dst,
                   DEFAULT, defaultState, failed>>

\* ------------------------------------------------------------ pool::len
LenCall(t) ==
    /\ pc[t] = "idle"
    /\ pc' = [pc EXCEPT ![t] = "len"]
    /\ lenIdx' = [lenIdx EXCEPT ![t] = 0]
    /\ lenAcc' = [lenAcc EXCEPT ![t] = 0]
    /\ UNCHANGED <<seed, par, hash, idx, probe, noted, wire, frames, bytes, count, shards, lock, own, val, arc, dst, DEFAULT,
                   defaultState, failed>>

\* One item of shards.iter().map(|o| o.lock().len()).sum(): o.lock() blocks
\* until the shard's mutex is free and takes it.
LenLock(t) ==
    /\ pc[t] = "len"
    /\ lock[lenIdx[t]] = NoThread
    /\ lock' = [lock EXCEPT ![lenIdx[t]] = t]
    /\ pc' = [pc EXCEPT ![t] = "len_shard"]
    /\ UNCHANGED <<seed, par, hash, idx, probe, noted, wire, frames, bytes, count, shards, own, val, arc, dst, DEFAULT,
                   defaultState, lenIdx, lenAcc, failed>>

\* The same item: the locked shard's length is read and the guard, a temporary
\* of the closure, is released before the iterator moves on.
LenShard(t) ==
    /\ pc[t] = "len_shard"
    /\ lock[lenIdx[t]] = t
    /\ lock' = [lock EXCEPT ![lenIdx[t]] = NoThread]
    /\ lenAcc' = [lenAcc EXCEPT ![t] = @ + Cardinality(shards[lenIdx[t]])]
    /\ IF lenIdx[t] + 1 = DEFAULT_SHARDS_COUNT
       THEN /\ pc' = [pc EXCEPT ![t] = "len_ret"]
            /\ lenIdx' = [lenIdx EXCEPT ![t] = 0]
       ELSE /\ pc' = [pc EXCEPT ![t] = "len"]
            /\ lenIdx' = [lenIdx EXCEPT ![t] = @ + 1]
    /\ UNCHANGED <<seed, par, hash, idx, probe, noted, wire, frames, bytes, count, shards, own, val, arc, dst, DEFAULT,
                   defaultState, failed>>

\* is_empty() is called: it calls len() and compares the sum with zero.
IsEmptyCall(t) ==
    /\ pc[t] = "idle"
    /\ pc' = [pc EXCEPT ![t] = "len"]
    /\ dst' = [dst EXCEPT ![t] = "is_empty"]
    /\ lenIdx' = [lenIdx EXCEPT ![t] = 0]
    /\ lenAcc' = [lenAcc EXCEPT ![t] = 0]
    /\ UNCHANGED <<seed, par, hash, idx, probe, noted, wire, frames, bytes, count, shards, lock, own, val, arc, DEFAULT,
                   defaultState, failed>>

\* is_empty() returns lenAcc[t] = 0 to its caller.
IsEmptyReturn(t) ==
    /\ pc[t] = "len_ret"
    /\ dst[t] = "is_empty"
    /\ pc' = [pc EXCEPT ![t] = "idle"]
    /\ dst' = [dst EXCEPT ![t] = "caller"]
    /\ lenAcc' = [lenAcc EXCEPT ![t] = 0]
    /\ UNCHANGED <<seed, par, hash, idx, probe, noted, wire, frames, bytes, count, shards, lock, own, val, arc, DEFAULT,
                   defaultState, lenIdx, failed>>

\* len() returns lenAcc[t] to its caller.
LenReturn(t) ==
    /\ pc[t] = "len_ret"
    /\ dst[t] # "is_empty"
    /\ pc' = [pc EXCEPT ![t] = "idle"]
    /\ lenAcc' = [lenAcc EXCEPT ![t] = 0]
    /\ UNCHANGED <<seed, par, hash, idx, probe, noted, wire, frames, bytes, count, shards, lock, own, val, arc, dst, DEFAULT,
                   defaultState, lenIdx, failed>>

\* ------------------------------------------------------ specifications
Step(t) ==
    \/ \E v \in Values : NewCall(t, v)
    \/ NewLock(t)
    \/ NewEntry(t)
    \/ \E a \in Addrs : Clone(t, a)
    \/ \E a \in Addrs : DropCall(t, a)
    \/ DropRead(t)
    \/ DropLock(t)
    \/ DropEntry(t)
    \/ DropRemove(t)
    \/ DropDec(t)
    \/ \E a \in Addrs : InternCall(t, a)
    \/ InternLock(t)
    \/ InternFind(t)
    \/ DefaultInit(t)
    \/ DefaultClone(t)

\* pool::len() only observes the pool.
LenStep(t) ==
    \/ LenCall(t)
    \/ LenLock(t)
    \/ LenShard(t)
    \/ LenReturn(t)

\* Threads run in parallel: any thread takes the next step of its operation.
Next == \E t \in Threads : Step(t)

Spec == Init /\ [][Next]_vars

\* A single-threaded execution: a thread steps only while no other thread is
\* inside an operation.
Serial(t) == \A u \in AllThreads \ {t} : pc[u] = "idle"

NextSeq ==
    \/ \E t \in Threads : \E v \in Values : Serial(t) /\ NewCall(t, v)
    \/ \E t \in Threads : Serial(t) /\ NewLock(t)
    \/ \E t \in Threads : Serial(t) /\ NewEntry(t)
    \/ \E t \in Threads : \E a \in Addrs : Serial(t) /\ Clone(t, a)
    \/ \E t \in Threads : \E a \in Addrs : Serial(t) /\ DropCall(t, a)
    \/ \E t \in Threads : Serial(t) /\ DropRead(t)
    \/ \E t \in Threads : Serial(t) /\ DropLock(t)
    \/ \E t \in Threads : Serial(t) /\ DropEntry(t)
    \/ \E t \in Threads : Serial(t) /\ DropRemove(t)
    \/ \E t \in Threads : Serial(t) /\ DropDec(t)
    \/ \E t \in Threads : \E a \in Addrs : Serial(t) /\ InternCall(t, a)
    \/ \E t \in Threads : Serial(t) /\ InternLock(t)
    \/ \E t \in Threads : Serial(t) /\ InternFind(t)
    \/ \E t \in Threads : Serial(t) /\ DefaultInit(t)
    \/ \E t \in Threads : Serial(t) /\ DefaultClone(t)
    \/ \E t \in Threads : Serial(t) /\ LenCall(t)
    \/ \E t \in Threads : Serial(t) /\ LenLock(t)
    \/ \E t \in Threads : Serial(t) /\ LenShard(t)
    \/ \E t \in Threads : Serial(t) /\ LenReturn(t)

SpecSeq == Init /\ [][NextSeq]_vars

\* ------------------------------ the test same_data_multithreaded_same_ptr
\* A spawned thread's closure ends: arcs.lock().push(arced) moves its handle
\* into the collector that the main thread owns, and the thread exits.
Push(t, a) ==
    /\ pc[t] = "idle"
    /\ own[t][a] > 0
    /\ own' = [own EXCEPT ![t][a] = @ - 1, ![MainThread][a] = @ + 1]
    /\ pc' = [pc EXCEPT ![t] = "exited"]
    /\ UNCHANGED <<seed, par, hash, idx, probe, noted, wire, frames, bytes, count, shards, lock, val, arc, dst, DEFAULT,
                   defaultState, lenIdx, lenAcc, failed>>

\* thread.join() has returned for every spawned thread.
Joined == \A t \in Threads : pc[t] = "exited"

\* Every spawned thread interns b"hello" once and pushes its handle; after the
\* joins the main thread drops the collector, one handle after another.
NextFanIn ==
    \/ \E t \in Threads : Handles(t) = 0 /\ NewCall(t, Hello)
    \/ \E t \in Threads : NewLock(t)
    \/ \E t \in Threads : NewEntry(t)
    \/ \E t \in Threads : \E a \in Addrs : Push(t, a)
    \/ \E a \in Addrs : Joined /\ DropCall(MainThread, a)
    \/ DropRead(MainThread)
    \/ DropLock(MainThread)
    \/ DropEntry(MainThread)
    \/ DropRemove(MainThread)
    \/ DropDec(MainThread)

SpecFanIn == Init /\ [][NextFanIn]_vars

\* ------------------------------------ the test re_intern_borrow_same_ptr
\* The byte value thread t interns: no other thread uses it.
ThreadValue(t) == IF t = 1 THEN << >> ELSE <<t - 1>>

\* Every thread interns its value, re-interns a borrow of that handle and
\* drops the handles one after the other; the threads run in parallel.
NextReIntern ==
    \/ \E t \in Threads : Handles(t) = 0 /\ NewCall(t, ThreadValue(t))
    \/ \E t \in Threads : NewLock(t)
    \/ \E t \in Threads : NewEntry(t)
    \/ \E t \in Threads : \E a \in Addrs : own[t][a] > 0 /\ InternCall(t, a)
    \/ \E t \in Threads : InternLock(t)
    \/ \E t \in Threads : InternFind(t)
    \/ \E t \in Threads : \E a \in Addrs : DropCall(t, a)
    \/ \E t \in Threads : DropRead(t)
    \/ \E t \in Threads : DropLock(t)
    \/ \E t \in Threads : DropEntry(t)
    \/ \E t \in Threads : DropRemove(t)
    \/ \E t \in Threads : DropDec(t)

SpecReIntern == Init /\ [][NextReIntern]_vars

\* --------------------------------------------- handles that are compared
\* The threads intern byte sequences of several lengths and drop them, one
\* operation at a time and each holding one handle at a time; the live
\* handles are the operands of cmp.
NextOrd ==
    \/ \E t \in Threads : \E v \in LongValues :
        Serial(t) /\ Handles(t) = 0 /\ NewCall(t, v)
    \/ \E t \in Threads : Serial(t) /\ NewLock(t)
    \/ \E t \in Threads : Serial(t) /\ NewEntry(t)
    \/ \E t \in Threads : \E a \in Addrs : Serial(t) /\ DropCall(t, a)
    \/ \E t \in Threads : Serial(t) /\ DropRead(t)
    \/ \E t \in Threads : Serial(t) /\ DropLock(t)
    \/ \E t \in Threads : Serial(t) /\ DropEntry(t)
    \/ \E t \in Threads : Serial(t) /\ DropRemove(t)
    \/ \E t \in Threads : Serial(t) /\ DropDec(t)

SpecOrd == Init /\ [][NextOrd]_vars

\* ------------------------------------------ the test validate_data_hash
\* What a test keeps of a live handle it looks at: its pointer, its bytes, and
\* what hash_builder.hash_one(&interned) and hash_data(&interned) fed the
\* hasher.
NoteOf(a) ==
    [ptr |-> as_ptr(a), data |-> bytes[a],
     ptr_hash |-> Interned_hash(a), data_hash |-> Interned_hash_data(a)]

\* The test looks at a live handle.
Note(t, a) ==
    /\ pc[t] = "idle"
    /\ own[t][a] > 0
    /\ noted[t] # NoteOf(a)
    /\ noted' = [noted EXCEPT ![t] = NoteOf(a)]
    /\ UNCHANGED <<seed, par, hash, idx, probe, wire, frames, bytes, count, shards, lock, pc, own, val, arc, dst,
                   DEFAULT, defaultState, lenIdx, lenAcc, failed>>

\* Every thread interns the test's value, looks at the handle, drops it at the
\* end of the block and starts again; the threads run in parallel.
NextIncarnation ==
    \/ \E t \in Threads : Handles(t) = 0 /\ NewCall(t, Hello)
    \/ \E t \in Threads : NewLock(t)
    \/ \E t \in Threads : NewEntry(t)
    \/ \E t \in Threads : \E a \in Addrs : Note(t, a)
    \/ \E t \in Threads : \E a \in Addrs : DropCall(t, a)
    \/ \E t \in Threads : DropRead(t)
    \/ \E t \in Threads : DropLock(t)
    \/ \E t \in Threads : DropEntry(t)
    \/ \E t \in Threads : DropRemove(t)
    \/ \E t \in Threads : DropDec(t)

SpecIncarnation == Init /\ [][NextIncarnation]_vars

\* The blocks of the test over any value, one operation at a time: a thread
\* interns a value, looks at the handle and drops it.
NextHashData ==
    \/ \E t \in Threads : \E v \in Values :
        Serial(t) /\ Handles(t) = 0 /\ NewCall(t, v)
    \/ \E t \in Threads : Serial(t) /\ NewLock(t)
    \/ \E t \in Threads : Serial(t) /\ NewEntry(t)
    \/ \E t \in Threads : \E a \in Addrs : Serial(t) /\ Note(t, a)
    \/ \E t \in Threads : \E a \in Addrs : Serial(t) /\ DropCall(t, a)
    \/ \E t \in Threads : Serial(t) /\ DropRead(t)
    \/ \E t \in Threads : Serial(t) /\ DropLock(t)
    \/ \E t \in Threads : Serial(t) /\ DropEntry(t)
    \/ \E t \in Threads : Serial(t) /\ DropRemove(t)
    \/ \E t \in Threads : Serial(t) /\ DropDec(t)

SpecHashData == Init /\ [][NextHashData]_vars

\* ----------------------------------------------------------- the codecs
\* Serialize for Interned: self.as_bstr().serialize(serializer), the bytes
\* written as one byte-string value.
SerializeBytes(v) == [tag |-> "bytes", items |-> v]
\* BString::deserialize: the bytes of a byte-string value, NoVal on an error.
DeserializeByteBuf(w) == IF w.tag = "bytes" THEN w.items ELSE NoVal
\* Vec::<u8>::decode: a length and that many bytes, NoVal on an error.
DecodeVec(c) ==
    IF Len(c) >= 1 /\ Len(c) - 1 >= c[1] THEN SubSeq(c, 2, c[1] + 1) ELSE NoVal
\* Inputs of decode: a length and the bytes of a value, and a truncated input.
WireInputs == {<<Len(v)>> \o v : v \in Values} \cup {<<1>>}

\* to_bytes() enters Encode::encode of Interned on a live handle.
EncodeCall(t, a) ==
    /\ pc[t] = "idle"
    /\ own[t][a] > 0
    /\ arc' = [arc EXCEPT ![t] = a]
    /\ frames' = [frames EXCEPT ![t] = 1]
    /\ pc' = [pc EXCEPT ![t] = "encode"]
    /\ UNCHANGED <<seed, par, hash, idx, probe, noted, wire, bytes, count, shards, lock, own, val, dst,
                   DEFAULT, defaultState, lenIdx, lenAcc, failed>>

\* Encode for Interned: Encode::encode::<CONFIG>(&self, w) with &self a
\* &&Interned, so the callee is Encode for &Interned; without room for its
\* frame the stack overflows.
EncodeRef(t) ==
    /\ pc[t] = "encode"
    /\ IF frames[t] < MaxFrames
       THEN /\ frames' = [frames EXCEPT ![t] = @ + 1]
            /\ pc' = [pc EXCEPT ![t] = "encode_ref"]
       ELSE /\ pc' = [pc EXCEPT ![t] = "overflow"]
            /\ UNCHANGED frames
    /\ UNCHANGED <<seed, par, hash, idx, probe, noted, wire, bytes, count, shards, lock, own, val, arc,
                   dst, DEFAULT, defaultState, lenIdx, lenAcc, failed>>

\* Encode for &Interned forwards to the referent: Encode for Interned again.
EncodeDeref(t) ==
    /\ pc[t] = "encode_ref"
    /\ IF frames[t] < MaxFrames
       THEN /\ frames' = [frames EXCEPT ![t] = @ + 1]
            /\ pc' = [pc EXCEPT ![t] = "encode"]
       ELSE /\ pc' = [pc EXCEPT ![t] = "overflow"]
            /\ UNCHANGED frames
    /\ UNCHANGED <<seed, par, hash, idx, probe, noted, wire, bytes, count, shards, lock, own, val, arc,
                   dst, DEFAULT, defaultState, lenIdx, lenAcc, failed>>

\* Interned::decode on an input: Vec::<u8>::decode(c)?, then data.into(),
\* which is Interned::new.
DecodeCall(t, c) ==
    /\ pc[t] = "idle"
    /\ Handles(t) < MaxHandles
    /\ DecodeVec(c) # NoVal
    /\ val' = [val EXCEPT ![t] = DecodeVec(c)]
    /\ dst' = [dst EXCEPT ![t] = "caller"]
    /\ pc' = [pc EXCEPT ![t] = "new_lock"]
    /\ UNCHANGED <<seed, par, hash, idx, probe, noted, wire, frames, bytes, count, shards, lock, own, arc,
                   DEFAULT, defaultState, lenIdx, lenAcc, failed>>

\* serde: a live handle is serialized.
Serialize(t, a) ==
    /\ pc[t] = "idle"
    /\ own[t][a] > 0
    /\ wire[t] = NoWire
    /\ wire' = [wire EXCEPT ![t] = SerializeBytes(bytes[a])]
    /\ UNCHANGED <<seed, par, hash, idx, probe, noted, frames, bytes, count, shards, lock, pc, own, val,
                   arc, dst, DEFAULT, defaultState, lenIdx, lenAcc, failed>>

\* serde: Interned::deserialize, BString::deserialize(..).map(|o| o.into()),
\* which is Interned::new on the bytes.
DeserializeCall(t) ==
    /\ pc[t] = "idle"
    /\ Handles(t) < MaxHandles
    /\ wire[t] # NoWire
    /\ DeserializeByteBuf(wire[t]) # NoVal
    /\ val' = [val EXCEPT ![t] = DeserializeByteBuf(wire[t])]
    /\ dst' = [dst EXCEPT ![t] = "caller"]
    /\ pc' = [pc EXCEPT ![t] = "new_lock"]
    /\ wire' = [wire EXCEPT ![t] = NoWire]
    /\ UNCHANGED <<seed, par, hash, idx, probe, noted, frames, bytes, count, shards, lock, own, arc,
                   DEFAULT, defaultState, lenIdx, lenAcc, failed>>

\* The tests databuf_encode_decode and serde on any value: threads intern,
\* encode, decode, serialize, deserialize and drop, one operation at a time.
\* A stack overflow ends the process: no thread takes another step.
NextCodec ==
    \/ \E t \in Threads : \E v \in Values :
        Serial(t) /\ Handles(t) = 0 /\ NewCall(t, v)
    \/ \E t \in Threads : Serial(t) /\ NewLock(t)
    \/ \E t \in Threads : Serial(t) /\ NewEntry(t)
    \/ \E t \in Threads : \E a \in Addrs : Serial(t) /\ EncodeCall(t, a)
    \/ \E t \in Threads : Serial(t) /\ EncodeRef(t)
    \/ \E t \in Threads : Serial(t) /\ EncodeDeref(t)
    \/ \E t \in Threads : \E c \in WireInputs : Serial(t) /\ DecodeCall(t, c)
    \/ \E t \in Threads : \E a \in Addrs : Serial(t) /\ Serialize(t, a)
    \/ \E t \in Threads : Serial(t) /\ DeserializeCall(t)
    \/ \E t \in Threads : \E a \in Addrs : Serial(t) /\ DropCall(t, a)
    \/ \E t \in Threads : Serial(t) /\ DropRead(t)
    \/ \E t \in Threads : Serial(t) /\ DropLock(t)
    \/ \E t \in Threads : Serial(t) /\ DropEntry(t)
    \/ \E t \in Threads : Serial(t) /\ DropRemove(t)
    \/ \E t \in Threads : Serial(t) /\ DropDec(t)

SpecCodec == Init /\ [][NextCodec]_vars

\* ------------------------------------------- operations contending for locks
\* Threads run new, clone, drop, intern, len and is_empty in parallel, all
\* handles over one byte value.
NextLock ==
    \/ \E t \in Threads : Handles(t) = 0 /\ NewCall(t, Hello)
    \/ \E t \in Threads : NewLock(t)
    \/ \E t \in Threads : NewEntry(t)
    \/ \E t \in Threads : \E a \in Addrs : Clone(t, a)
    \/ \E t \in Threads : \E a \in Addrs : DropCall(t, a)
    \/ \E t \in Threads : DropRead(t)
    \/ \E t \in Threads : DropLock(t)
    \/ \E t \in Threads : DropEntry(t)
    \/ \E t \in Threads : DropRemove(t)
    \/ \E t \in Threads : DropDec(t)
    \/ \E t \in Threads : \E a \in Addrs : InternCall(t, a)
    \/ \E t \in Threads : InternLock(t)
    \/ \E t \in Threads : InternFind(t)
    \/ \E t \in Threads : LenCall(t)
    \/ \E t \in Threads : LenLock(t)
    \/ \E t \in Threads : LenShard(t)
    \/ \E t \in Threads : LenReturn(t)
    \/ \E t \in Threads : IsEmptyCall(t)
    \/ \E t \in Threads : IsEmptyReturn(t)

SpecLock == Init /\ [][NextLock]_vars

\* The steps of a started operation that wait for nothing.
Continue(t) ==
    \/ NewEntry(t)
    \/ DropRead(t)
    \/ DropEntry(t)
    \/ DropRemove(t)
    \/ DropDec(t)
    \/ InternFind(t)
    \/ LenShard(t)
    \/ LenReturn(t)
    \/ IsEmptyReturn(t)

\* The steps that take a shard's mutex, blocking while another thread holds it.
Acquire(t) ==
    \/ NewLock(t)
    \/ DropLock(t)
    \/ InternLock(t)
    \/ LenLock(t)

\* Fair scheduling: a thread that can run does run, and parking_lot's mutex
\* is eventually fair, so a thread that keeps finding the mutex free again and
\* again gets it.
SpecLockFair ==
    /\ SpecLock
    /\ \A t \in Threads : WF_vars(Continue(t)) /\ SF_vars(Acquire(t))

\* ------------------------------------------------------- shard selection
\* get_hash_and_shard of a ShardedSet::default() built where
\* available_parallelism() reported p, for a value whose hash is h.
GetHashAndShard(p, h) ==
    /\ par' = p
    /\ hash' = h
    /\ idx' = shard_of(h, shift_of(shards_count(p)))
    /\ UNCHANGED <<seed, bytes, count, shards, lock, pc, own, val, arc, dst, DEFAULT,
                   defaultState, lenIdx, lenAcc, failed, noted, wire, frames, probe>>

\* No operation of POOL has started yet.
Untouched ==
    /\ \A t \in AllThreads : pc[t] = "idle"
    /\ \A a \in Addrs : count[a] = 0

\* Either the selection is tried on one of the hashes and parallelisms, or
\* the threads insert and evict values in POOL in parallel.
NextShard ==
    \/ \E p \in Reports : \E h \in HashInputs :
           Untouched /\ idx = NoIdx /\ GetHashAndShard(p, h)
    \/ \E t \in Threads : \E v \in Values :
           idx = NoIdx /\ Handles(t) = 0 /\ NewCall(t, v)
    \/ \E t \in Threads : NewLock(t)
    \/ \E t \in Threads : NewEntry(t)
    \/ \E t \in Threads : \E a \in Addrs : DropCall(t, a)
    \/ \E t \in Threads : DropRead(t)
    \/ \E t \in Threads : DropLock(t)
    \/ \E t \in Threads : DropEntry(t)
    \/ \E t \in Threads : DropRemove(t)
    \/ \E t \in Threads : DropDec(t)

SpecShard == Init /\ [][NextShard]_vars

\* ------------------------------------------- operations over several values
\* Threads run new, clone, drop and intern over every value in parallel; a
\* thread that holds no handle may also run len or is_empty.
NextFrame ==
    \/ \E t \in Threads : \E v \in Values : Handles(t) = 0 /\ NewCall(t, v)
    \/ \E t \in Threads : NewLock(t)
    \/ \E t \in Threads : NewEntry(t)
    \/ \E t \in Threads : \E a \in Addrs : Clone(t, a)
    \/ \E t \in Threads : \E a \in Addrs : DropCall(t, a)
    \/ \E t \in Threads : DropRead(t)
    \/ \E t \in Threads : DropLock(t)
    \/ \E t \in Threads : DropEntry(t)
    \/ \E t \in Threads : DropRemove(t)
    \/ \E t \in Threads : DropDec(t)
    \/ \E t \in Threads : \E a \in Addrs : InternCall(t, a)
    \/ \E t \in Threads : InternLock(t)
    \/ \E t \in Threads : InternFind(t)
    \/ \E t \in Threads : Handles(t) = 0 /\ LenCall(t)
    \/ \E t \in Threads : LenLock(t)
    \/ \E t \in Threads : LenShard(t)
    \/ \E t \in Threads : LenReturn(t)
    \/ \E t \in Threads : Handles(t) = 0 /\ IsEmptyCall(t)
    \/ \E t \in Threads : IsEmptyReturn(t)

SpecFrame == Init /\ [][NextFrame]_vars

\* --------------------------------------------- a value a thread has to itself
\* The byte value the running operation of thread u is about.
OpValue(u) ==
    IF pc[u] \in {"drop_read", "drop_lock", "drop_entry", "drop_remove", "drop_dec"}
    THEN bytes[arc[u]]
    ELSE IF pc[u] = "def_clone" THEN << >> ELSE val[u]

\* No thread owns a handle over v and no thread but t runs an operation on v.
Uncontended(t, v) ==
    /\ \A a \in Addrs :
           bytes[a] = v => \A u \in AllThreads : own[u][a] = 0
    /\ \A u \in AllThreads \ {t} : pc[u] # "idle" => OpValue(u) # v

\* Interned::new(v) is called by a thread that, from this call to the end of
\* the drop of the handle it gets, is the only one to work on v.
ProbeNew(t, v) ==
    /\ probe = NoProbe
    /\ Uncontended(t, v)
    /\ pc[t] = "idle"
    /\ Handles(t) = 0
    /\ pc' = [pc EXCEPT ![t] = "new_lock"]
    /\ val' = [val EXCEPT ![t] = v]
    /\ dst' = [dst EXCEPT ![t] = "caller"]
    /\ probe' = [t |-> t, v |-> v]
    /\ UNCHANGED <<seed, par, hash, idx, noted, wire, frames, bytes, count, shards, lock, own,
                   arc, DEFAULT, defaultState, lenIdx, lenAcc, failed>>

\* The drop has returned; the value is anybody's again.
ProbeEnd ==
    /\ probe # NoProbe
    /\ pc[probe.t] = "idle"
    /\ Handles(probe.t) = 0
    /\ probe' = NoProbe
    /\ UNCHANGED <<seed, par, hash, idx, noted, wire, frames, bytes, count, shards, lock, pc,
                   own, val, arc, dst, DEFAULT, defaultState, lenIdx, lenAcc, failed>>

\* Thread u may start an operation on value w: nobody has a value to itself,
\* or another thread has and it is another value.
CallOk(u, w) == probe = NoProbe \/ (u # probe.t /\ w # probe.v)
\* Thread u may drop its handle on a: as above, or it is the handle the
\* thread got for the value it has to itself.
DropOk(u, a) == CallOk(u, bytes[a]) \/ (u = probe.t /\ bytes[a] = probe.v)

\* Threads run the pool's operations in parallel; now and then one of them
\* runs new(v) and drops the handle while the others keep off v.
NextProbe ==
    \/ \E t \in Threads : \E v \in Values : ProbeNew(t, v)
    \/ ProbeEnd
    \/ \E t \in Threads : \E v \in Values : CallOk(t, v) /\ Handles(t) = 0 /\ NewCall(t, v)
    \/ \E t \in Threads : NewLock(t)
    \/ \E t \in Threads : NewEntry(t)
    \/ \E t \in Threads : \E a \in Addrs : CallOk(t, bytes[a]) /\ Clone(t, a)
    \/ \E t \in Threads : \E a \in Addrs : DropOk(t, a) /\ DropCall(t, a)
    \/ \E t \in Threads : DropRead(t)
    \/ \E t \in Threads : DropLock(t)
    \/ \E t \in Threads : DropEntry(t)
    \/ \E t \in Threads : DropRemove(t)
    \/ \E t \in Threads : DropDec(t)
    \/ \E t \in Threads : \E a \in Addrs : CallOk(t, bytes[a]) /\ InternCall(t, a)
    \/ \E t \in Threads : InternLock(t)
    \/ \E t \in Threads : InternFind(t)
    \/ \E t \in Threads : CallOk(t, << >>) /\ DefaultInit(t)
    \/ \E t \in Threads : CallOk(t, << >>) /\ DefaultClone(t)

SpecProbe == Init /\ [][NextProbe]_vars

\* ------------------------------------------------ vocabulary of the claims
RECURSIVE SumOver(_, _, _)
SumOver(f, a, T) ==
    IF T = {} THEN 0
    ELSE LET t == CHOOSE x \in T : TRUE IN f[t][a] + SumOver(f, a, T \ {t})

\* Live handles that threads own on buffer a.
OwnedOn(a) == SumOver(own, a, AllThreads)
DefaultOn(a) == IF defaultState = "done" /\ DEFAULT = a THEN 1 ELSE 0
\* Live handles on buffer a: constructed and not inside drop.
LiveOn(a) == OwnedOn(a) + DefaultOn(a)
LiveAddrs == {a \in Addrs : LiveOn(a) > 0}
InDrop(t) == pc[t] \in {"drop_read", "drop_lock", "drop_entry", "drop_remove", "drop_dec"}
\* Handles inside drop that still hold their reference on a.
DroppingOn(a) == Cardinality({t \in AllThreads : InDrop(t) /\ arc[t] = a})
AllIdle == \A t \in AllThreads : pc[t] = "idle"

\* C1: any two live handles have equal bytes if and only if they have the same
\* buffer address.
C1_Identity ==
    \A a \in LiveAddrs : \A b \in LiveAddrs : (bytes[a] = bytes[b]) <=> (a = b)

\* Two threads hold live handles on one buffer while one of them also holds a
\* handle on another.
C1_Witness ==
    \E t \in Threads : \E u \in Threads \ {t} : \E a \in Addrs : \E b \in Addrs \ {a} :
        own[t][a] > 0 /\ own[u][a] > 0 /\ own[u][b] > 0

\* C2 (state part): the buffer of every live handle is the buffer stored in the
\* pool, in the shard of its bytes.
LiveInPool ==
    \A a \in LiveAddrs : count[a] > 0 /\ a \in shards[ShardIdx(bytes[a])]

\* C2 (step part): no step takes a buffer out of the pool while a live handle
\* refers to it.
NoLiveEvicted == \A a \in Pool : a \notin Pool' => LiveOn(a) = 0

\* C2 (step part): a drop whose re-check under the lock reads a strong count
\* above two aborts the eviction.
AbortRule ==
    \A t \in AllThreads :
        (pc[t] = "drop_entry" /\ pc'[t] # "drop_entry"
            /\ count[arc[t]] > MINIMUM_STRONG_COUNT)
        => (pc'[t] = "drop_dec" /\ shards' = shards)

\* C2: eviction safety of the two-phase check.
C2_EvictionSafety == [](LiveInPool) /\ [][NoLiveEvicted /\ AbortRule]_vars

\* A drop passed the unlocked read, and at its re-check under the lock another
\* thread's live handle has raised the count above two.
C2_Witness ==
    \E t \in Threads : \E u \in Threads \ {t} :
        /\ pc[t] = "drop_entry"
        /\ count[arc[t]] > MINIMUM_STRONG_COUNT
        /\ own[u][arc[t]] > 0

\* C6: the pool holds at most one entry per byte sequence, each in the shard
\* its bytes select.
C6_PoolUnique ==
    /\ \A a \in Pool : \A b \in Pool : bytes[a] = bytes[b] => a = b
    /\ \A i \in ShardIds : \A a \in shards[i] : ShardIdx(bytes[a]) = i

\* The pool holds an entry per value and a thread is about to look one of them
\* up again under the lock.
C6_Witness ==
    /\ {bytes[a] : a \in Pool} = Values
    /\ \E t \in Threads :
        pc[t] = "new_entry" /\ FindEqual(shards[ShardIdx(val[t])], val[t]) # {}

\* C7: a pooled buffer's strong count is 1 plus the handles that have not
\* released their reference; a buffer outside the pool is counted by those
\* handles alone.
C7_RefCount ==
    \A a \in Addrs :
        /\ count[a] = (IF a \in Pool THEN 1 ELSE 0) + LiveOn(a) + DroppingOn(a)
        /\ (a \in Pool \/ LiveOn(a) + DroppingOn(a) > 0) => count[a] > 0 /\ bytes[a] \in Values

\* A pooled buffer is held by a live handle and by a handle inside drop, while
\* another thread holds a buffer that has left the pool.
C7_Witness ==
    \E a \in Pool : \E b \in Addrs \ Pool :
        LiveOn(a) > 0 /\ DroppingOn(a) > 0 /\ DroppingOn(b) > 0

\* C3: once every thread has finished its new(v) and its drop, the pool holds
\* no entry without a live handle (the default handle keeps the default entry).
C3_DropCleanliness == AllIdle => \A a \in Pool : LiveOn(a) > 0

\* C8: a clone (a step that gives an idle thread one more handle and leaves it
\* idle) adds a handle on the buffer of a handle that was live, raises that
\* buffer's count by exactly one, and leaves the shards, their locks and every
\* buffer's bytes unchanged.
IsClone(t) == pc[t] = "idle" /\ pc'[t] = "idle" /\ Handles(t)' = Handles(t) + 1
CloneEffect(t) ==
    \E a \in Addrs :
        /\ own[t][a] > 0 \/ DefaultOn(a) > 0
        /\ own' = [own EXCEPT ![t][a] = @ + 1]
        /\ count' = [count EXCEPT ![a] = @ + 1]
        /\ shards' = shards /\ lock' = lock /\ bytes' = bytes
C8_CloneFrame == [][\A t \in AllThreads : IsClone(t) => CloneEffect(t)]_vars

\* A thread holds a handle and its clone while another thread holds the lock of
\* the buffer's shard.
C8_Witness ==
    \E t \in Threads : \E u \in Threads \ {t} : \E a \in Pool :
        own[t][a] = 2 /\ count[a] = 3 /\ lock[ShardIdx(bytes[a])] = u

\* C9 (state part): once the default handle exists its buffer holds the empty
\* byte sequence and is the pool's entry for it, every live handle over the
\* empty sequence has its address, and the pool is not empty.
DefaultKept ==
    defaultState = "done" =>
        /\ bytes[DEFAULT] = << >>
        /\ DEFAULT \in shards[ShardIdx(<< >>)]
        /\ count[DEFAULT] >= 2
        /\ \A a \in LiveAddrs : bytes[a] = << >> => a = DEFAULT
        /\ Cardinality(Pool) >= 1

\* C9 (step part): the default handle, once constructed, is never replaced.
DefaultStable ==
    defaultState = "done" => defaultState' = "done" /\ DEFAULT' = DEFAULT

\* C9: the default entry is never evicted.
C9_DefaultNeverEvicted == [](DefaultKept) /\ [][DefaultStable]_vars

\* The default handle was constructed while a drop of another handle over the
\* empty sequence was past its unlocked read; that drop now holds the lock.
C9_Witness ==
    /\ defaultState = "done"
    /\ \E t \in Threads : pc[t] = "drop_entry" /\ arc[t] = DEFAULT

\* C10: intern() on a borrow of a live handle never fails: under the lock the
\* source's buffer is in the shard of its bytes.
C10_InternFinds ==
    /\ failed = {}
    /\ \A t \in AllThreads : pc[t] # "panicked"
    /\ \A t \in AllThreads :
        pc[t] = "intern_find" => FindSame(shards[ShardIdx(val[t])], arc[t]) # {}

\* intern() holds the lock while another thread is dropping a handle on the
\* same buffer.
C10_Witness ==
    \E t \in Threads : \E u \in Threads \ {t} :
        /\ pc[t] = "intern_find"
        /\ own[t][arc[t]] > 0
        /\ InDrop(u) /\ arc[u] = arc[t]

\* Byte values with a live handle owned by a thread.
OwnedValues == {bytes[a] : a \in {x \in Addrs : OwnedOn(x) > 0}}
\* Byte values with a live handle, the default handle included.
LiveValues == {bytes[a] : a \in LiveAddrs}
Quiet == \A t \in AllThreads : pc[t] \in {"idle", "len", "len_shard", "len_ret"}

\* C4 as stated: in a single-threaded execution len() returns the number of
\* byte values with a live handle, plus one once the default handle exists.
C4_LenPlusDefault ==
    \A t \in AllThreads :
        pc[t] = "len_ret" =>
            lenAcc[t] = Cardinality(OwnedValues) + (IF defaultState = "done" THEN 1 ELSE 0)

\* C4 amended: in a single-threaded execution, between operations the pool
\* holds exactly one entry per byte value with a live handle, the default
\* handle being a live handle over the empty sequence, and len() returns that
\* number.
C4_SeqLen ==
    /\ Quiet => Cardinality(Pool) = Cardinality(LiveValues)
    /\ \A t \in AllThreads : pc[t] = "len_ret" => lenAcc[t] = Cardinality(LiveValues)

\* len() returns 2 while the default handle exists and a thread holds a handle
\* over the empty sequence and none over some other value it had before.
C4_Witness ==
    \E t \in Threads :
        /\ pc[t] = "len_ret" /\ lenAcc[t] = 2
        /\ defaultState = "done" /\ OwnedOn(DEFAULT) > 0

\* Live handles that threads own, over all buffers.
RECURSIVE OwnedFrom(_)
OwnedFrom(a) == IF a > NumAddrs THEN 0 ELSE OwnedOn(a) + OwnedFrom(a + 1)

\* C5 (fan-in): once every thread's new(v) has returned and while all N
\* handles are kept, they share one address and the pool's only entry is that
\* buffer, with strong count N + 1.
FanInConverged ==
    (\A t \in AllThreads : pc[t] \in {"idle", "exited"}) /\ OwnedFrom(1) = NThreads
        => \E a \in Addrs :
            /\ OwnedOn(a) = NThreads
            /\ Pool = {a}
            /\ bytes[a] = Hello
            /\ count[a] = NThreads + 1

\* C5 (collector drop): the entry stays while the main thread still holds a
\* collected handle and is gone once it has dropped the last one.
FanInDropped ==
    Joined /\ pc[MainThread] = "idle" =>
        IF Handles(MainThread) > 0
        THEN \E a \in Addrs : Pool = {a} /\ own[MainThread][a] = Handles(MainThread)
        ELSE Pool = {} /\ \A a \in Addrs : count[a] = 0

\* C5: concurrent convergence.
C5_FanIn == FanInConverged /\ FanInDropped

\* Every thread has pushed its handle and the main thread has dropped them all.
C5_Witness ==
    Joined /\ pc[MainThread] = "idle" /\ Handles(MainThread) = 0 /\ Pool = {}

\* All the handles are collected in the main thread.
C5_WitnessCollected ==
    Joined /\ pc[MainThread] = "idle" /\ Handles(MainThread) = NThreads

\* C11 (step part): an intern() that returns gives its thread one more handle
\* on the buffer of the borrow's source, which is live, raises that buffer's
\* count by exactly one and leaves every shard and every buffer's bytes as
\* they were.
ReInternEffect ==
    \A t \in AllThreads :
        pc[t] = "intern_find" /\ pc'[t] # "intern_find" =>
            /\ pc'[t] = "idle"
            /\ own[t][arc[t]] > 0 \/ DefaultOn(arc[t]) > 0
            /\ own' = [own EXCEPT ![t][arc[t]] = @ + 1]
            /\ count' = [count EXCEPT ![arc[t]] = @ + 1]
            /\ shards' = shards /\ bytes' = bytes

\* C11 (state part): a thread that has dropped its handles one after the
\* other has left no entry for its value and no allocated buffer.
ReInternDropped ==
    \A t \in Threads :
        pc[t] = "idle" /\ Handles(t) = 0 =>
            \A a \in Addrs : bytes[a] = ThreadValue(t) => a \notin Pool /\ count[a] = 0

\* C11: re-interning a borrow shares the source's buffer, and the entry goes
\* once both handles are dropped.
C11_ReIntern == [](ReInternDropped) /\ [][ReInternEffect]_vars

\* A thread holds a handle and the handle intern() built from its borrow, on a
\* pooled buffer of count 3, while another thread holds a shard lock.
C11_Witness ==
    \E t \in Threads : \E u \in Threads \ {t} : \E a \in Pool : \E i \in ShardIds :
        /\ pc[t] = "idle" /\ own[t][a] = 2 /\ count[a] = 3
        /\ lock[i] = u

\* C12 (views): a borrow of a live handle feeds a hasher what the handle
\* feeds it, equals another borrow exactly when the handles are equal, and
\* orders as the handle does.
BorrowAgrees ==
    \A h \in LiveAddrs : \A g \in LiveAddrs :
        /\ Borrowed_hash(as_ref(h)) = Interned_hash(h)
        /\ Borrowed_eq(as_ref(h), as_ref(g)) <=> Interned_eq(h, g)
        /\ Borrowed_cmp(as_ref(h), as_ref(g)) = Interned_cmp(h, g)

\* The map whose keys are the live handles on the buffers of K, each mapped
\* to its bytes.
MapOf(K) == {[k |-> a, v |-> bytes[a]] : a \in K}

\* C12 (lookups): in a hashed or ordered map keyed by live handles, a lookup
\* with a live handle q or with its borrow returns the value stored under q's
\* bytes when the map has a key over those bytes, and nothing otherwise.
LookupFinds ==
    \A K \in SUBSET LiveAddrs : \A q \in LiveAddrs : \A s \in Seeds :
        LET expected == IF \E a \in K : bytes[a] = bytes[q] THEN {bytes[q]} ELSE {}
        IN /\ HashMapGet(s, MapOf(K), q) = expected
           /\ HashMapGetBorrowed(s, MapOf(K), as_ref(q)) = expected
           /\ BTreeMapGet(MapOf(K), q) = expected
           /\ BTreeMapGetBorrowed(MapOf(K), as_ref(q)) = expected

\* C12: map lookup by handle or by borrow.
C12_MapLookup == BorrowAgrees /\ LookupFinds

\* Two live handles share the buffer of a map key, whose borrow retrieves the
\* value, while a live handle over other bytes retrieves nothing.
C12_Witness ==
    \E k \in LiveAddrs : \E x \in LiveAddrs \ {k} :
        /\ OwnedOn(k) >= 2
        /\ HashMapGetBorrowed(seed, MapOf({k}), as_ref(k)) = {bytes[k]}
        /\ BTreeMapGetBorrowed(MapOf({k}), as_ref(k)) = {bytes[k]}
        /\ HashMapGet(seed, MapOf({k}), x) = {}
        /\ BTreeMapGet(MapOf({k}), x) = {}

\* The lexicographic order of two byte sequences, from its definition: the
\* first position where they differ decides, a proper prefix is smaller.
Differ(x, y) == {i \in 1..Len(x) : i <= Len(y) /\ x[i] # y[i]}
FirstDiffer(x, y) == CHOOSE i \in Differ(x, y) : \A j \in Differ(x, y) : i <= j
LexOrder(x, y) ==
    IF Differ(x, y) # {}
    THEN IF x[FirstDiffer(x, y)] < y[FirstDiffer(x, y)] THEN "Less" ELSE "Greater"
    ELSE IF Len(x) < Len(y) THEN "Less"
    ELSE IF Len(x) > Len(y) THEN "Greater"
    ELSE "Equal"

\* Buffers some handle can still read: allocated and not yet freed.
Allocated == {a \in Addrs : count[a] > 0}

\* C13: cmp on handles and on their borrows is the lexicographic order of the
\* bytes, whatever the addresses, and two live handles compare Equal exactly
\* when they are equal by address.
C13_OrderVersusEquality ==
    /\ \A a \in Allocated : \A b \in Allocated :
        /\ Interned_cmp(a, b) = LexOrder(bytes[a], bytes[b])
        /\ Borrowed_cmp(as_ref(a), as_ref(b)) = Interned_cmp(a, b)
    /\ \A a \in LiveAddrs : \A b \in LiveAddrs :
        (Interned_cmp(a, b) = "Equal") <=> Interned_eq(a, b)

\* Two live handles over sequences that share their first byte order against
\* their addresses.
C13_Witness ==
    \E a \in LiveAddrs : \E b \in LiveAddrs :
        /\ a < b /\ Interned_cmp(a, b) = "Greater"
        /\ Len(bytes[a]) = MaxLen /\ Len(bytes[b]) >= 1 /\ bytes[a][1] = bytes[b][1]

\* Buffers that enter the pool in this step.
Inserted == {a \in Addrs : a \notin Pool /\ a \in Pool'}

\* C14 (insertion): a buffer enters the pool only as a fresh allocation made
\* by a new(v) that found no entry for v under the lock: it was not allocated
\* before the step, so it is no buffer that left the pool and is still held,
\* in particular not the buffer of a handle inside drop.
FreshInsert ==
    \A a \in Inserted :
        /\ count[a] = 0
        /\ \A t \in AllThreads : InDrop(t) => arc[t] # a
        /\ \E u \in AllThreads :
            /\ pc[u] = "new_entry"
            /\ FindEqual(shards[ShardIdx(val[u])], val[u]) = {}
            /\ bytes'[a] = val[u]

\* C14 (eviction): an allocated buffer outside the pool has left it for good:
\* only handles inside drop still hold it, and it is not live.
EvictedForGood ==
    \A a \in Allocated \ Pool : LiveOn(a) = 0 /\ DroppingOn(a) = count[a]

\* C14 as stated: moreover the address of a new incarnation of v differs from
\* the address any earlier incarnation of v had.
NewAddressDiffers ==
    \A a \in Inserted : \A t \in AllThreads :
        ~(noted[t].ptr = a /\ noted[t].data = bytes'[a])
C14_NewAddress == [](EvictedForGood) /\ [][FreshInsert /\ NewAddressDiffers]_vars

\* C14 amended: a new incarnation is a fresh allocation, at an address that
\* differs from every buffer still allocated.
C14_Incarnations == [](EvictedForGood) /\ [][FreshInsert]_vars

\* A handle inside drop still holds the buffer it has evicted while another
\* thread holds a live handle on a new incarnation of the same bytes.
C14_Witness ==
    \E t \in Threads : \E u \in Threads \ {t} : \E b \in Pool :
        /\ pc[t] = "drop_dec" /\ arc[t] \notin Pool /\ count[arc[t]] > 0
        /\ own[u][b] > 0 /\ bytes[b] = bytes[arc[t]] /\ b # arc[t]

\* The writes of a feed that carry a pointer.
PointerWrites(feed) == {i \in 1..Len(feed) : feed[i][1] = "usize"}

\* C15 (feed): hash_data of a live handle writes the hash of its bytes and
\* then one zero byte, no pointer, and its borrow writes the same; Hash writes
\* the pointer alone.
ContentFeed ==
    \A a \in LiveAddrs :
        /\ Len(Interned_hash_data(a)) = Len(slice_hash(bytes[a])) + 1
        /\ SubSeq(Interned_hash_data(a), 1, Len(slice_hash(bytes[a]))) = slice_hash(bytes[a])
        /\ Interned_hash_data(a)[Len(Interned_hash_data(a))] = <<"u8", 0>>
        /\ PointerWrites(Interned_hash_data(a)) = {}
        /\ Borrowed_hash_data(as_ref(a)) = Interned_hash_data(a)
        /\ Interned_hash(a) = << <<"usize", a>> >>

\* C15 (incarnations): with one hasher, a live handle has the content hash a
\* test kept of any handle over equal bytes, whatever the two addresses, and
\* the address hash it kept of any handle at the same address, whatever the
\* bytes.
SameBytesSameHash ==
    \A t \in AllThreads : \A a \in LiveAddrs : \A s \in Seeds :
        /\ noted[t].data = bytes[a] =>
            finish(s, noted[t].data_hash) = finish(s, Interned_hash_data(a))
        /\ noted[t].ptr = as_ptr(a) =>
            finish(s, noted[t].ptr_hash) = finish(s, Interned_hash(a))

\* C15: content hashing.
C15_ContentHash == ContentFeed /\ SameBytesSameHash

\* A live handle has the bytes of a handle a test looked at earlier at another
\* address, and a live handle has the address of an earlier handle with other
\* bytes.
C15_Witness ==
    /\ \E t \in Threads : \E a \in LiveAddrs :
        noted[t].data = bytes[a] /\ noted[t].ptr # as_ptr(a)
    /\ \E t \in Threads : \E a \in LiveAddrs :
        noted[t].ptr = as_ptr(a) /\ noted[t].data # bytes[a]

\* C16 (encoding returns): no encode() runs out of stack.
EncodeReturns == \A t \in AllThreads : pc[t] # "overflow"

\* C16 (bytes): what a handle serializes to deserializes to its bytes.
RoundTripBytes ==
    \A a \in LiveAddrs : DeserializeByteBuf(SerializeBytes(bytes[a])) = bytes[a]

\* C16 (address): a decoded handle shares the buffer of every live handle over
\* the same bytes.
DecodedShares ==
    \A a \in LiveAddrs : \A b \in LiveAddrs : bytes[a] = bytes[b] => a = b

\* C16 (decoding interns): a deserialization interns the bytes that were
\* serialized, those of the handle when it is still live.
DecodeInterns ==
    \A t \in AllThreads :
        wire[t] # NoWire /\ wire'[t] = NoWire =>
            /\ pc'[t] = "new_lock"
            /\ val'[t] = DeserializeByteBuf(wire[t])
            /\ \A a \in Addrs :
                own[t][a] > 0 /\ wire[t] = SerializeBytes(bytes[a]) => val'[t] = bytes[a]

\* C16 as stated: encoding a handle and decoding the result, with the binary
\* codec or the structured serialization, yields a handle with the bytes of
\* the original and, while it is live, its address.
C16_RoundTrip ==
    [](EncodeReturns /\ RoundTripBytes /\ DecodedShares) /\ [][DecodeInterns]_vars

\* C17 (re-check): a drop that holds the shard lock goes on to remove exactly
\* when the shard holds the entry at its own buffer's address and the count
\* it reads is at most two; either way the check itself leaves the shards
\* unchanged, and without a removal the drop goes to its release.
RecheckRule ==
    \A t \in AllThreads :
        pc[t] = "drop_entry" /\ pc'[t] # "drop_entry" =>
            LET i == ShardIdx(bytes[arc[t]])
            IN /\ lock[i] = t
               /\ shards' = shards
               /\ IF arc[t] \in shards[i] /\ count[arc[t]] <= 2
                  THEN pc'[t] = "drop_remove" /\ lock'[i] = t
                  ELSE pc'[t] = "drop_dec"

\* C17 (removal): every entry that leaves the pool is the entry at the address
\* of the buffer of a drop that passed the re-check and holds the lock of the
\* entry's shard, and that drop removes nothing else.
RemovalRule ==
    /\ \A a \in Pool \ Pool' :
        \E t \in AllThreads :
            /\ pc[t] = "drop_remove" /\ pc'[t] = "drop_dec"
            /\ arc[t] = a
            /\ lock[ShardIdx(bytes[a])] = t
    /\ \A t \in AllThreads :
        pc[t] = "drop_remove" /\ pc'[t] # "drop_remove" =>
            shards' = [shards EXCEPT ![ShardIdx(bytes[arc[t]])] = @ \ {arc[t]}]

\* C17: the locked re-check rule.
C17_LockedRecheck == [][RecheckRule /\ RemovalRule]_vars

\* A drop holds the lock for the re-check of a buffer while another thread,
\* inside drop, still holds an evicted buffer with the same bytes.
C17_Witness ==
    \E t \in Threads : \E u \in Threads \ {t} :
        /\ pc[t] = "drop_entry" /\ arc[t] \in Pool
        /\ pc[u] = "drop_dec" /\ arc[u] \notin Pool /\ count[arc[u]] > 0
        /\ bytes[arc[u]] = bytes[arc[t]]

\* The shard locks thread t holds.
LocksOf(t) == {i \in ShardIds : lock[i] = t}

\* C18 (unlocked read): the read changes no count, no shard and no lock; at a
\* count above two the drop goes straight to the release of its reference,
\* otherwise to the lock.
FastPathRule ==
    \A t \in AllThreads :
        pc[t] = "drop_read" /\ pc'[t] # "drop_read" =>
            /\ shards' = shards /\ lock' = lock /\ count' = count
            /\ IF count[arc[t]] > 2 THEN pc'[t] = "drop_dec" ELSE pc'[t] = "drop_lock"

\* C18 (locking): a drop takes a lock only from the point the read sent it to
\* at a count of at most two, it is the lock of its buffer's shard and the
\* only lock it holds; the release of the reference takes none and leaves the
\* pool alone.
DropLocking ==
    \A t \in AllThreads :
        /\ InDrop(t) /\ LocksOf(t)' # LocksOf(t) /\ LocksOf(t)' # {} =>
            /\ pc[t] = "drop_lock"
            /\ LocksOf(t) = {}
            /\ LocksOf(t)' = {ShardIdx(bytes[arc[t]])}
        /\ pc'[t] = "drop_lock" /\ pc[t] # "drop_lock" =>
            pc[t] = "drop_read" /\ count[arc[t]] <= 2
        /\ pc[t] = "drop_dec" /\ pc'[t] # "drop_dec" =>
            shards' = shards /\ lock' = lock

\* C18 (state part): a drop holds no lock before it has locked and after it
\* has returned from remove_if_needed.
NoLockOutside ==
    \A t \in AllThreads :
        pc[t] \in {"drop_read", "drop_lock", "drop_dec"} => LocksOf(t) = {}

\* C18: the drop fast path.
C18_FastPath == [](NoLockOutside) /\ [][FastPathRule /\ DropLocking]_vars

\* A drop has returned on the fast path, its buffer still pooled with a count
\* of three, while another thread holds the lock of the buffer's shard.
C18_Witness ==
    \E t \in Threads : \E u \in Threads \ {t} :
        /\ pc[t] = "drop_dec" /\ arc[t] \in Pool /\ count[arc[t]] = 3
        /\ lock[ShardIdx(bytes[arc[t]])] = u

\* C19 (state part): while a drop is inside remove_if_needed its handle's
\* reference is still counted: the count is at least one, and at least two
\* while the buffer is pooled.
StillCounted ==
    \A t \in AllThreads :
        InDrop(t) => count[arc[t]] >= (IF arc[t] \in Pool THEN 2 ELSE 1)

\* C19 (order): the steps of a drop inside remove_if_needed release no
\* reference, except the removal, which releases the pool's and not the last
\* one; the handle's reference goes in the step after the return.
ReleaseOrder ==
    \A t \in AllThreads :
        /\ pc[t] \in {"drop_read", "drop_lock", "drop_entry"} /\ pc'[t] # pc[t] =>
            count' = count /\ bytes' = bytes
        /\ pc[t] = "drop_remove" /\ pc'[t] # pc[t] =>
            /\ arc[t] \in Pool /\ arc[t] \notin Pool'
            /\ count' = [count EXCEPT ![arc[t]] = @ - 1]
            /\ count'[arc[t]] >= 1 /\ bytes' = bytes
        /\ pc[t] = "drop_dec" /\ pc'[t] # pc[t] =>
            /\ count' = [count EXCEPT ![arc[t]] = @ - 1]
            /\ Pool' = Pool

\* Buffers that are freed in this step.
Freed == {a \in Addrs : count[a] > 0 /\ count'[a] = 0}

\* C19 (reclamation): a buffer is freed by the release of a dropping handle's
\* reference, the last one, when the buffer is not in the pool and no handle
\* on it is live; no other release frees.
FreedWhenUnused ==
    /\ \A a \in Freed :
        /\ a \notin Pool /\ LiveOn(a) = 0 /\ DroppingOn(a) = 1
        /\ bytes'[a] = NoVal
        /\ \E t \in AllThreads : pc[t] = "drop_dec" /\ arc[t] = a /\ pc'[t] = "idle"
    /\ \A a \in Addrs \ Freed : bytes'[a] = NoVal => bytes[a] = NoVal

\* C19: drop ordering and reclamation.
C19_DropOrder == [](StillCounted) /\ [][ReleaseOrder /\ FreedWhenUnused]_vars

\* A drop has evicted its entry and is about to release the last reference
\* while another thread is about to intern the same bytes under the lock.
C19_Witness ==
    \E t \in Threads : \E u \in Threads \ {t} :
        /\ pc[t] = "drop_dec" /\ arc[t] \notin Pool /\ count[arc[t]] = 1
        /\ pc[u] = "new_entry" /\ val[u] = bytes[arc[t]]

\* C20 (state part): a thread holds at most one shard mutex, holds one only
\* between taking it and the end of the critical section, and none between
\* operations; len() holds the mutex of the shard it is reading only.
OneLockAtATime ==
    \A t \in AllThreads :
        /\ Cardinality(LocksOf(t)) <= 1
        /\ LocksOf(t) # {} =>
              pc[t] \in {"new_entry", "drop_entry", "drop_remove", "intern_find", "len_shard"}
        /\ pc[t] = "len_shard" => LocksOf(t) = {lenIdx[t]}

\* C20 (acquisition): a thread that holds a mutex takes no other.
NoNestedLocking ==
    \A t \in AllThreads : LocksOf(t) # {} => LocksOf(t)' \subseteq LocksOf(t)

\* A thread is blocked in lock() of the shard it wants.
Waiting(t) == pc[t] \in {"new_lock", "drop_lock", "intern_lock", "len"}
WantedShard(t) ==
    CASE pc[t] = "drop_lock" -> ShardIdx(bytes[arc[t]])
      [] pc[t] = "len" -> lenIdx[t]
      [] OTHER -> ShardIdx(val[t])

\* C20 (no deadlock): a thread waits only for a mutex that is free or held by
\* another thread that is inside its critical section and waits for nothing,
\* so no thread waits for a waiting thread.
NoDeadlock ==
    \A t \in Threads :
        Waiting(t) /\ lock[WantedShard(t)] # NoThread =>
            /\ lock[WantedShard(t)] \in Threads \ {t}
            /\ ~Waiting(lock[WantedShard(t)])
            /\ pc[lock[WantedShard(t)]] \in
                  {"new_entry", "drop_entry", "drop_remove", "intern_find", "len_shard"}

\* C20 (termination): under fair scheduling every started operation returns.
Terminates == \A t \in Threads : (pc[t] # "idle") ~> (pc[t] = "idle")

\* C20: lock discipline and termination.
C20_LockDiscipline ==
    /\ [](OneLockAtATime /\ NoDeadlock)
    /\ [][NoNestedLocking]_vars
    /\ Terminates

\* len() has read some shards and waits for the mutex of the next one, which
\* a drop holds while it removes its entry.
C20_Witness ==
    \E t \in Threads : \E u \in Threads \ {t} :
        /\ pc[t] = "len" /\ lenIdx[t] > 0
        /\ lock[lenIdx[t]] = u /\ pc[u] = "drop_remove"

\* C21 (shard count): the count is the least power of two that is at least
\* four times the parallelism, taken as 1 when unknown, and the shift is the
\* word width less its logarithm, below the word width.
ShardCountRule ==
    LET n == shards_count(par)
        q == IF par = NoParallelism THEN 4 ELSE 4 * par
    IN  \E k \in 0..HashWindow :
            /\ n = 2 ^ k /\ n >= q /\ n < 2 * q
            /\ shift_of(n) = WordBits - k
            /\ shift_of(n) >= 0 /\ shift_of(n) < WordBits

\* C21 (index): the index is in range and is spelled by the log2(count) bits
\* of the hash just below the top seven, which the truncated shift drops.
IndexRule ==
    idx # NoIdx =>
        /\ idx >= 0 /\ idx < shards_count(par)
        /\ \E m \in 0..(2 ^ HashWindow - 1) : \E hi \in {0, 1} : \E lo \in {0, 1} :
               /\ hash = HashWord(m, hi, lo)
               /\ idx = m \div (2 ^ (HashWindow - trailing_zeros(shards_count(par))))

\* The byte value a thread's critical section is about.
InCritical(t) == pc[t] \in {"new_entry", "drop_entry", "drop_remove"}
CriticalValue(t) == IF pc[t] = "new_entry" THEN val[t] ELSE bytes[arc[t]]

\* C21 (one mutex per value): an entry sits in the shard its bytes select, an
\* insertion or eviction holds the mutex of that shard, and no two of them
\* run on one byte value at a time.
OneMutexPerValue ==
    /\ \A i \in ShardIds : \A a \in shards[i] :
           i = ShardIdx(bytes[a]) /\ i = get_shard_idx(seed, bytes[a])
    /\ \A t \in Threads : InCritical(t) => lock[ShardIdx(CriticalValue(t))] = t
    /\ \A t \in Threads : \A u \in Threads \ {t} :
           InCritical(t) /\ InCritical(u) => CriticalValue(t) # CriticalValue(u)

\* C21: shard selection is in range and deterministic.
C21_ShardSelection == ShardCountRule /\ IndexRule /\ OneMutexPerValue

\* The last of sixteen shards is selected, on a machine reporting three, by a
\* hash whose top seven bits are set.
C21_Witness ==
    /\ par = 3 /\ shards_count(par) = 16
    /\ idx = 15 /\ hash[WordBits] = 1 /\ hash[1] = 0

\* A thread evicts the entry of a value while the other waits for the same
\* mutex to insert that value.
C21_WitnessPool ==
    \E t \in Threads : \E u \in Threads \ {t} :
        /\ pc[t] = "drop_remove" /\ pc[u] = "new_lock"
        /\ val[u] = bytes[arc[t]]

\* A drop that has passed the fast path and holds the shard's mutex.
LockedDrop(t) == pc[t] \in {"drop_entry", "drop_remove"}
\* A handle on a that has not finished its eviction check: a live handle, or a
\* drop by thread u that has not left remove_if_needed.
Unchecked(a, u) ==
    \/ LiveOn(a) > 0
    \/ pc[u] \in {"drop_read", "drop_lock", "drop_entry", "drop_remove"} /\ arc[u] = a

\* C22 (state part): under the lock the shard of a drop holds the entry with
\* the handle's address and no other entry with its bytes, and no second drop
\* on that buffer is past the fast path.
LookupFindsSame ==
    \A t \in AllThreads :
        LockedDrop(t) =>
            LET i == ShardIdx(bytes[arc[t]])
            IN  /\ lock[i] = t
                /\ FindSame(shards[i], arc[t]) = {arc[t]}
                /\ FindEqual(shards[i], bytes[arc[t]]) = {arc[t]}
                /\ \A u \in AllThreads \ {t} :
                       ~(pc[u] \in {"drop_lock", "drop_entry", "drop_remove"}
                         /\ arc[u] = arc[t])

\* C22 (removal): a buffer leaves the pool only in the removal step of a drop
\* on it, when no other handle on it is still to run its eviction check.
RemovedAfterChecks ==
    \A a \in Pool \ Pool' :
        \E t \in AllThreads :
            /\ pc[t] = "drop_remove" /\ arc[t] = a /\ pc'[t] = "drop_dec"
            /\ \A u \in AllThreads \ {t} : ~Unchecked(a, u)

\* C22: the address lookup of a drop never misses.
C22_LookupNeverMisses == [](LookupFindsSame) /\ [][RemovedAfterChecks]_vars

\* A drop is at its lookup, count two, while another thread waits for the
\* shard's mutex to intern the same bytes.
C22_Witness ==
    \E t \in Threads : \E u \in Threads \ {t} :
        /\ pc[t] = "drop_entry" /\ count[arc[t]] = 2
        /\ pc[u] = "new_lock" /\ val[u] = bytes[arc[t]]

\* The thread that takes this step.
Acting(t) == pc'[t] # pc[t] \/ own'[t] # own[t]
\* A step of Interned::new by t, and the value it is called with.
NewStep(t) ==
    /\ Acting(t)
    /\ pc[t] \in {"new_lock", "new_entry"} \/ pc'[t] = "new_lock"
NewValue(t) == IF pc[t] = "idle" THEN val'[t] ELSE val[t]
\* A step of the drop of a handle by t, and the bytes of that handle.
DropStep(t) ==
    /\ Acting(t)
    /\ InDrop(t) \/ pc'[t] = "drop_read"
DropValue(t) == IF pc[t] = "idle" THEN bytes[arc'[t]] ELSE bytes[arc[t]]

\* Every pool entry whose bytes differ from v stays, where it is and with its
\* strong count, and no entry with other bytes than v comes in.
OthersUntouched(v) ==
    /\ \A i \in ShardIds : \A b \in shards[i] :
           bytes[b] # v => b \in shards'[i] /\ count'[b] = count[b] /\ bytes'[b] = bytes[b]
    /\ \A b \in Pool' \ Pool : bytes'[b] = v

\* C23 (frame): new(v) and the drop of a handle over v leave the entries of
\* other byte values alone.
FrameOfNewAndDrop ==
    \A t \in AllThreads :
        /\ NewStep(t) => OthersUntouched(NewValue(t))
        /\ DropStep(t) => OthersUntouched(DropValue(t))

\* C23 (who adds, who removes): an entry is added only by new, under the
\* lock, for a value no entry holds; it is removed only by a drop; every
\* other operation leaves the shards as they are.
AddedByNewRemovedByDrop ==
    /\ \A b \in Pool' \ Pool :
           \E t \in AllThreads :
               /\ pc[t] = "new_entry" /\ Acting(t) /\ bytes'[b] = val[t]
               /\ lock[ShardIdx(val[t])] = t
               /\ \A c \in Pool : bytes[c] # val[t]
    /\ \A b \in Pool \ Pool' :
           \E t \in AllThreads : pc[t] = "drop_remove" /\ Acting(t) /\ arc[t] = b
    /\ \A t \in AllThreads :
           Acting(t) /\ ~NewStep(t) /\ ~DropStep(t) => shards' = shards

\* C23: the frame of new and drop.
C23_Frame == [][FrameOfNewAndDrop /\ AddedByNewRemovedByDrop]_vars

\* A drop is about to remove its entry while the pool holds an entry with
\* other bytes, on which the other thread has two handles.
C23_Witness ==
    \E t \in Threads : \E u \in Threads \ {t} : \E b \in Pool :
        /\ pc[t] = "drop_remove" /\ bytes[b] # bytes[arc[t]]
        /\ own[u][b] = 2

\* The pool's entries for the byte value v.
EntriesFor(v) == {a \in Pool : bytes[a] = v}

\* C24 (reuse): when the pool holds an entry for v, the new(v) of the thread
\* that has v to itself hands out that entry, one reference more on it, and
\* allocates nothing; otherwise it allocates the one buffer it inserts.
ProbeReuses ==
    \A t \in Threads :
        probe.t = t /\ pc[t] = "new_entry" /\ pc'[t] # pc[t] =>
            IF EntriesFor(probe.v) # {}
            THEN /\ {a \in Addrs : count'[a] > 0} = Allocated
                 /\ Pool' = Pool
                 /\ \E a \in EntriesFor(probe.v) :
                        /\ own'[t][a] = 1
                        /\ count' = [count EXCEPT ![a] = @ + 1]
            ELSE \E a \in Addrs \ Allocated :
                    /\ {b \in Addrs : count'[b] > 0} = Allocated \cup {a}
                    /\ Pool' = Pool \cup {a}
                    /\ own'[t][a] = 1 /\ bytes'[a] = probe.v

\* C24 (eviction): once that thread's drop has returned the pool holds no
\* entry for v and no buffer with these bytes is allocated, unless v is the
\* empty sequence and the default handle exists: then its entry stays.
ProbeEvicts ==
    probe # NoProbe /\ pc[probe.t] = "idle" /\ Handles(probe.t) = 0 =>
        IF probe.v = << >> /\ defaultState = "done"
        THEN EntriesFor(probe.v) = {DEFAULT}
        ELSE /\ EntriesFor(probe.v) = {}
             /\ \A a \in Allocated : bytes[a] # probe.v

\* C24: an uncontended new(v) followed by the drop of its handle, from any
\* reachable state.
C24_UncontendedEviction == [](ProbeEvicts) /\ [][ProbeReuses]_vars

\* That new(v) is at its lookup and the pool holds an entry for v that no
\* handle refers to, left behind by two drops that raced.
C24_Witness ==
    /\ probe # NoProbe
    /\ pc[probe.t] = "new_entry"
    /\ \E a \in EntriesFor(probe.v) : count[a] = 1 /\ LiveOn(a) = 0

=============================================================================
